---- MODULE Spec2Model ----
(***************************************************************************)
(* ArthGuru financial coach (src/finai_coach_app.py).                      *)
(*                                                                         *)
(* The program is a Streamlit script: every user interaction runs main()   *)
(* from the top against the session store st.session_state, and            *)
(* st.rerun() aborts the running script and runs it once more with no      *)
(* widget fired.  One action of this model is one run of main().           *)
(*                                                                         *)
(* Strings whose characters matter (queries, categories) are sequences of  *)
(* one-character strings, so that lower() and the substring test are  *)
(* computed.  Amounts are integers; quotients are exact rationals extended *)
(* with inf/-inf/nan, the values numpy's float division produces.          *)
(***************************************************************************)
EXTENDS Integers, Sequences, FiniteSets, TLC

\* ------------------------------------------------------------------ bounds
MaxRows == 2
MaxChat == 2
SampleMonths == 1
MaxPlanCalls == 2
MaxTx == 3
MaxLongChat == 4

\* ----------------------------------------------------------------- strings
Ascii ==
  <<" ","!","\"","#","$","%","&","'","(",")","*","+",",","-",".","/",
    "0","1","2","3","4","5","6","7","8","9",":",";","<","=",">","?","@",
    "A","B","C","D","E","F","G","H","I","J","K","L","M","N","O","P","Q",
    "R","S","T","U","V","W","X","Y","Z","[","\\","]","^","_","(grave)",
    "a","b","c","d","e","f","g","h","i","j","k","l","m","n","o","p","q",
    "r","s","t","u","v","w","x","y","z","{","|","}","~">>

\* code point of a character (Ascii starts at the space, code 32; the grave
\* accent, code 96, cannot be written as a string here and has a stand-in)
CodePoint ==
  [c \in {Ascii[i] : i \in 1..Len(Ascii)} |-> 31 + (CHOOSE i \in 1..Len(Ascii) : Ascii[i] = c)]

Ord(c) ==
  CodePoint[c]

Chr(n) ==
  Ascii[n - 31]

\* str.lower() on one character, then on a string
LowerChar(c) ==
  IF Ord(c) >= 65 /\ Ord(c) <= 90 THEN Chr(Ord(c) + 32) ELSE c

Lower(s) ==
  [i \in 1..Len(s) |-> LowerChar(s[i])]

\* the Python test: sub in s
Contains(sub, s) ==
  \E i \in 1..(Len(s) - Len(sub) + 1) : SubSeq(s, i, i + Len(sub) - 1) = sub

\* Python's ordering of strings: by code point, a proper prefix first
RECURSIVE StrLess(_, _)
StrLess(a, b) ==
  IF a = <<>> THEN b # <<>>
  ELSE IF b = <<>> THEN FALSE
  ELSE IF Ord(Head(a)) # Ord(Head(b)) THEN Ord(Head(a)) < Ord(Head(b))
  ELSE StrLess(Tail(a), Tail(b))

kw_summarize == <<"s","u","m","m","a","r","i","z","e">>
kw_health == <<"h","e","a","l","t","h">>
kw_savings == <<"s","a","v","i","n","g","s">>
kw_save == <<"s","a","v","e">>
kw_spending == <<"s","p","e","n","d","i","n","g">>
kw_expenses == <<"e","x","p","e","n","s","e","s">>

Food == <<"F","o","o","d">>
Healthcare == <<"H","e","a","l","t","h","c","a","r","e">>
Salary == <<"S","a","l","a","r","y">>

Q_health ==
  <<"S","u","m","m","a","r","i","z","e"," ","m","y"," ","f","i","n","a","n",
    "c","i","a","l"," ","h","e","a","l","t","h",".">>
Q_priority ==
  <<"W","h","a","t"," ","i","s"," ","m","y"," ","t","o","p"," ","p","r","i",
    "o","r","i","t","y","?">>
Q_reduce_pre ==
  <<"H","o","w"," ","c","a","n"," ","I"," ","r","e","d","u","c","e"," ","m",
    "y"," ","s","p","e","n","d","i","n","g"," ","o","n"," ">>
Q_reduce_post == <<"?">>
Q_improve ==
  <<"G","i","v","e"," ","m","e"," ","3"," ","w","a","y","s"," ","t","o"," ",
    "i","m","p","r","o","v","e"," ","m","y"," ","s","a","v","i","n","g","s",
    " ","r","a","t","e",".">>

\* what the user types into st.chat_input
P_rate ==
  <<"W","h","a","t"," ","i","s"," ","m","y"," ","s","a","v","i","n","g","s",
    " ","r","a","t","e","?">>
P_both ==
  <<"S","u","m","m","a","r","i","z","e"," ","m","y"," ","s","p","e","n","d",
    "i","n","g">>
P_upper == <<"E","X","P","E","N","S","E","S">>
P_save ==
  <<"H","o","w"," ","d","o"," ","I"," ","s","a","v","e"," ","m","o","r","e","?">>

Prompts == {P_rate, P_both, P_upper, P_save}

\* ----------------------------------------------------------------- numbers
Abs(x) ==
  IF x < 0 THEN -x ELSE x

RECURSIVE GCD(_, _)
GCD(a, b) ==
  IF b = 0 THEN a ELSE GCD(b, a % b)

\* a finite float n/d (d > 0), in lowest terms
Finite(n, d) ==
  LET g == GCD(Abs(n), d)
  IN  [kind |-> "finite", num |-> n \div g, den |-> d \div g]

Inf == [kind |-> "inf", num |-> 0, den |-> 1]
NegInf == [kind |-> "-inf", num |-> 0, den |-> 1]
NaN == [kind |-> "nan", num |-> 0, den |-> 1]

\* a / b on numpy scalars: a zero divisor gives inf, -inf or nan, no exception
Div(a, b) ==
  IF b = 0 THEN (IF a > 0 THEN Inf ELSE IF a < 0 THEN NegInf ELSE NaN)
  ELSE IF b > 0 THEN Finite(a, b)
  ELSE Finite(-a, -b)

\* x * k for an integer k > 0
Times(x, k) ==
  IF x.kind = "finite" THEN Finite(x.num * k, x.den) ELSE x

\* x < k and x > k for an integer k; every comparison with nan is False
Less(x, k) ==
  \/ x.kind = "-inf"
  \/ x.kind = "finite" /\ x.num < k * x.den

Greater(x, k) ==
  \/ x.kind = "inf"
  \/ x.kind = "finite" /\ x.num > k * x.den

\* the format specs :.1f (scale 10) and :,.0f (scale 1): the value rounded
\* half-to-even to an integer number of 1/scale units; inf and nan print as
\* themselves
Fmt(x, scale) ==
  IF x.kind # "finite" THEN [kind |-> x.kind, units |-> 0]
  ELSE LET n == x.num * scale
           q == n \div x.den
           r == n - q * x.den
       IN  [kind |-> "finite",
            units |-> IF 2 * r < x.den THEN q
                      ELSE IF 2 * r > x.den THEN q + 1
                      ELSE IF q % 2 = 0 THEN q ELSE q + 1]

RECURSIVE SeqSum(_)
SeqSum(s) ==
  IF s = <<>> THEN 0 ELSE Head(s) + SeqSum(Tail(s))

\* the keys of a groupby, sorted as pandas sorts them (sort=True)
RECURSIVE SortedKeys(_)
SortedKeys(S) ==
  IF S = {} THEN <<>>
  ELSE LET m == CHOOSE k \in S : \A o \in S \ {k} : StrLess(k, o)
       IN  <<m>> \o SortedKeys(S \ {m})

\* the monthly periods of a groupby, in calendar order
RECURSIVE SortedPeriods(_)
SortedPeriods(S) ==
  IF S = {} THEN <<>>
  ELSE LET m == CHOOSE p \in S : \A o \in S \ {p} :
                   p.year < o.year \/ (p.year = o.year /\ p.month < o.month)
       IN  <<m>> \o SortedPeriods(S \ {m})

\* -------------------------------------------------------- TransactionSets
RequiredColumns == {"date", "income", "spending", "category"}

Dates == {[year |-> 2025, month |-> 4, day |-> 1]}
IncomeAmounts == {10}
Categories == {Food, Healthcare}
SpendingAmounts ==
  [c \in Categories |-> IF c = Food THEN {1, 9, 10} ELSE {1}]

IncomeRows ==
  {[date |-> d, income |-> a, spending |-> 0, category |-> Salary] :
      d \in Dates, a \in IncomeAmounts}

ExpenseRows ==
  UNION {{[date |-> d, income |-> 0, spending |-> a, category |-> c] :
             d \in Dates, a \in SpendingAmounts[c]} : c \in Categories}

SeqsUpTo(S, n) ==
  UNION {[1..k -> S] : k \in 0..n}

\* a data frame as pd.DataFrame(...) and pd.read_csv build it: the date
\* column holds strings (dtype object) until something converts it
Frame(cols, rows) ==
  [columns |-> cols, date_dtype |-> "object", rows |-> rows]

WellFormedSets ==
  {Frame(RequiredColumns, rows) : rows \in SeqsUpTo(IncomeRows \cup ExpenseRows, MaxRows)}

MalformedSets ==
  {Frame(RequiredColumns \ {c}, <<>>) : c \in RequiredColumns}

\* the contents a CSV file given to the uploader can have
CsvFiles == WellFormedSets \cup MalformedSets

\* the frames load_sample_data can return: one salary row per month, then
\* the expense rows the random draws produced
load_sample_data ==
  {Frame(RequiredColumns, inc \o exp) :
      inc \in [1..SampleMonths -> IncomeRows],
      exp \in SeqsUpTo(ExpenseRows, MaxRows - SampleMonths)}

\* ------------------------------------------------- FinancialAnalyzerAgent
\* pd.to_datetime on the date column, assigned back into the caller's frame
to_datetime(data) ==
  [data EXCEPT !.date_dtype = "datetime64"]

\* .dt.to_period('M')
to_period_M(date) ==
  [year |-> date.year, month |-> date.month]

\* the columns data['income'] and data['spending'] of a sequence of rows
income_column(rows) ==
  [i \in 1..Len(rows) |-> rows[i].income]

spending_column(rows) ==
  [i \in 1..Len(rows) |-> rows[i].spending]

\* a savings rate computed without the test of total_income
savings_rate_unguarded(net_savings, total_income) ==
  Times(Div(net_savings, total_income), 100)

\* line 79
savings_rate(net_savings, total_income) ==
  IF total_income > 0
  THEN Times(Div(net_savings, total_income), 100)
  ELSE Finite(0, 1)

\* a grouping that keeps the rows whose spending is 0
expense_by_category_all_rows(rows) ==
  LET keys == SortedKeys({rows[i].category : i \in 1..Len(rows)})
  IN  [k \in 1..Len(keys) |->
         LET InCategory(r) == r.category = keys[k]
         IN  [category |-> keys[k],
              spending |-> SeqSum(spending_column(SelectSeq(rows, InCategory)))]]

\* line 83: the rows with spending > 0, grouped by category (the groups in
\* sorted key order), the spending of each group summed
expense_by_category(rows) ==
  LET HasSpending(r) == r.spending > 0
      spending_rows == SelectSeq(rows, HasSpending)
      keys == SortedKeys({spending_rows[i].category : i \in 1..Len(spending_rows)})
  IN  [k \in 1..Len(keys) |->
         LET InCategory(r) == r.category = keys[k]
         IN  [category |-> keys[k],
              spending |-> SeqSum(spending_column(SelectSeq(spending_rows, InCategory)))]]

\* the value analyze returns
analyze(data) ==
  LET rows == data.rows
      HasIncome(r) == r.income > 0
      total_income == SeqSum(income_column(rows))
      total_expenses == SeqSum(spending_column(rows))
      net_savings == total_income - total_expenses
      income_rows == SelectSeq(rows, HasIncome)
      months == SortedPeriods({to_period_M(income_rows[i].date) : i \in 1..Len(income_rows)})
      monthly_income ==
        [k \in 1..Len(months) |->
           LET InMonth(r) == to_period_M(r.date) = months[k]
           IN  SeqSum(income_column(SelectSeq(income_rows, InMonth)))]
      income_mean == IF months = <<>> THEN NaN
                     ELSE Div(SeqSum(monthly_income), Len(months))
  IN  [total_income |-> total_income, total_expenses |-> total_expenses,
       net_savings |-> net_savings,
       savings_rate |-> savings_rate(net_savings, total_income),
       avg_monthly_income |-> income_mean,
       expense_by_category |-> expense_by_category(rows)]

\* Series.idxmax(): the label of the first occurrence of the maximum; the
\* series is a sequence of [category, spending] in index order.  It raises
\* ValueError on an empty series (idxmax_raises).
idxmax_raises(series) ==
  series = <<>>

\* the position of the last occurrence of the maximum
argmax_last(series) ==
  CHOOSE i \in 1..Len(series) :
    /\ \A j \in 1..Len(series) : series[j].spending <= series[i].spending
    /\ \A j \in (i + 1)..Len(series) : series[j].spending < series[i].spending

argmax(series) ==
  CHOOSE i \in 1..Len(series) :
    /\ \A j \in 1..Len(series) : series[j].spending <= series[i].spending
    /\ \A j \in 1..(i - 1) : series[j].spending < series[i].spending

idxmax(series) ==
  series[argmax(series)].category

\* series[label]
at(series, label) ==
  series[CHOOSE i \in 1..Len(series) : series[i].category = label].spending

\* Series.max()
max(series) ==
  series[argmax(series)].spending

\* an f-string: the template and the values interpolated into it
Text(fmt, args) ==
  [fmt |-> fmt, args |-> args]

\* --------------------------------------------------- FinancialPlannerAgent
\* create_plan raises exactly when line 108's idxmax does
create_plan_raises(analysis_results) ==
  idxmax_raises(analysis_results.expense_by_category)

\* rule 1 with the comparison savings_rate <= 10
savings_rate_rule_inclusive(analysis_results) ==
  IF ~Greater(analysis_results.savings_rate, 10)
  THEN [recommendations |->
          <<[type |-> "critical",
             title |-> Text("Low Savings Rate Detected", <<>>),
             message |-> Text("Your savings rate is {:.1f}%. Target at least 15-20% for financial stability.",
                              <<Fmt(analysis_results.savings_rate, 10)>>)]>>,
        goals |-> <<Text("Increase savings rate to 15% within 3 months", <<>>)>>]
  ELSE [recommendations |->
          <<[type |-> "success",
             title |-> Text("Excellent Savings Rate", <<>>),
             message |-> Text("Great job! Your {:.1f}% savings rate is above average.",
                              <<Fmt(analysis_results.savings_rate, 10)>>)]>>,
        goals |-> <<>>]

\* rule 1, lines 97-107
savings_rate_rule(analysis_results) ==
  IF Less(analysis_results.savings_rate, 10)
  THEN [recommendations |->
          <<[type |-> "critical",
             title |-> Text("Low Savings Rate Detected", <<>>),
             message |-> Text("Your savings rate is {:.1f}%. Target at least 15-20% for financial stability.",
                              <<Fmt(analysis_results.savings_rate, 10)>>)]>>,
        goals |-> <<Text("Increase savings rate to 15% within 3 months", <<>>)>>]
  ELSE [recommendations |->
          <<[type |-> "success",
             title |-> Text("Excellent Savings Rate", <<>>),
             message |-> Text("Great job! Your {:.1f}% savings rate is above average.",
                              <<Fmt(analysis_results.savings_rate, 10)>>)]>>,
        goals |-> <<>>]

\* a share test that fires at 15% as well
high_share_inclusive(share) ==
  ~Less(share, 15)

\* the test of line 109
high_share(share) ==
  Greater(share, 15)

\* rule 1, then lines 108-115
create_plan(analysis_results) ==
  LET rule1 == savings_rate_rule(analysis_results)
      top_expense_cat == idxmax(analysis_results.expense_by_category)
      top_spending == at(analysis_results.expense_by_category, top_expense_cat)
      share == Times(Div(top_spending, analysis_results.total_income), 100)
  IN  IF high_share(share)
      THEN [recommendations |->
              Append(rule1.recommendations,
                     [type |-> "warning",
                      title |-> Text("High {} Spending", <<top_expense_cat>>),
                      message |-> Text("{} spending is {:.1f}% of income. Consider reducing to 10%.",
                                       <<top_expense_cat, Fmt(share, 10)>>)]),
            goals |-> Append(rule1.goals, Text("Reduce {} spending by 30%", <<top_expense_cat>>))]
      ELSE rule1

\* --------------------------------------------------- FinancialAdvisorAgent
FinancialAdvisorAgent(analysis, plan) ==
  [analysis |-> analysis, plan |-> plan]

\* a dispatcher that tests the spending keywords first
generate_advice_spending_first(self, query) ==
  LET query_lower == Lower(query)
  IN  IF Contains(kw_spending, query_lower) \/ Contains(kw_expenses, query_lower)
      THEN Text("spending",
                <<idxmax(self.analysis.expense_by_category),
                  Fmt(Finite(max(self.analysis.expense_by_category), 1), 1)>>)
      ELSE IF Contains(kw_summarize, query_lower) \/ Contains(kw_health, query_lower)
      THEN Text("summarize",
                <<Fmt(self.analysis.savings_rate, 10), Fmt(Finite(self.analysis.net_savings, 1), 1)>>)
      ELSE IF Contains(kw_savings, query_lower) \/ Contains(kw_save, query_lower)
      THEN Text("savings", <<Fmt(self.analysis.savings_rate, 10)>>)
      ELSE Text("fallback", <<>>)

generate_advice(self, query) ==
  LET query_lower == Lower(query)
  IN  IF Contains(kw_summarize, query_lower) \/ Contains(kw_health, query_lower)
      THEN Text("summarize",
                <<Fmt(self.analysis.savings_rate, 10), Fmt(Finite(self.analysis.net_savings, 1), 1)>>)
      ELSE IF Contains(kw_savings, query_lower) \/ Contains(kw_save, query_lower)
      THEN Text("savings", <<Fmt(self.analysis.savings_rate, 10)>>)
      ELSE IF Contains(kw_spending, query_lower) \/ Contains(kw_expenses, query_lower)
      THEN Text("spending",
                <<idxmax(self.analysis.expense_by_category),
                  Fmt(Finite(max(self.analysis.expense_by_category), 1), 1)>>)
      ELSE Text("fallback", <<>>)

\* ------------------------------------------------------ utility functions
Q_reduce(top_expense) ==
  Q_reduce_pre \o top_expense \o Q_reduce_post

\* random.sample(population, k): every ordering of every k distinct members
random_sample(population, k) ==
  {[i \in 1..k |-> population[pick[i]]] :
      pick \in {f \in [1..k -> 1..Len(population)] :
                  \A a, b \in 1..k : a # b => f[a] # f[b]}}

Min(a, b) ==
  IF a < b THEN a ELSE b

\* a test that adds the savings question at a rate of 15 as well
low_savings_rate_inclusive(analysis) ==
  ~Greater(analysis.savings_rate, 15)

\* the test of line 34
low_savings_rate(analysis) ==
  Less(analysis.savings_rate, 15)

\* the lists generate_suggested_questions can return
generate_suggested_questions(analysis) ==
  LET top_expense == idxmax(analysis.expense_by_category)
      base == <<Q_health, Q_priority, Q_reduce(top_expense)>>
      questions == IF low_savings_rate(analysis)
                   THEN Append(base, Q_improve)
                   ELSE base
  IN  random_sample(questions, Min(Len(questions), 4))

\* ------------------------------------------------------- st.session_state
\* The session store is a function from the keys present to their values:
\* `key in st.session_state' is key \in DOMAIN ss.
VARIABLES
  session_state,   \* st.session_state
  data_option,     \* the value of the "Choose data source:" radio
  uploaded_file,   \* the file held by the uploader: <<>> or <<contents>>
  shown,           \* keys of the widgets the last run rendered
  rerun_pending,   \* st.rerun() was called: the script runs again at once
  run,             \* probe: what the last run of main() was and did
  analyze_calls,   \* probe: calls of analyze since the keys were last deleted
  create_plan_calls \* probe: calls of create_plan since the keys were last deleted

vars ==
  <<session_state, data_option, uploaded_file, shown, rerun_pending, run, analyze_calls,
    create_plan_calls>>

DataOptions == {"Use Sample Data", "Upload CSV"}

Has(ss, key) ==
  key \in DOMAIN ss

Set(ss, key, value) ==
  [k \in DOMAIN ss \cup {key} |-> IF k = key THEN value ELSE ss[k]]

Del(ss, key) ==
  [k \in DOMAIN ss \ {key} |-> ss[k]]

\* lines 146-147 and 151-152: the loop deleting the pipeline's keys
ResetKeys == {"step", "analysis", "plan", "advisor", "chat_history", "suggested_questions"}

\* reset loops whose key list lacks 'plan', or lacks 'advisor'
DeleteKeys_keep_plan(ss) ==
  [k \in DOMAIN ss \ (ResetKeys \ {"plan"}) |-> ss[k]]

DeleteKeys_keep_advisor(ss) ==
  [k \in DOMAIN ss \ (ResetKeys \ {"advisor"}) |-> ss[k]]

\* a reset loop whose key list lacks 'suggested_questions'
DeleteKeys_keep_suggestions(ss) ==
  [k \in DOMAIN ss \ (ResetKeys \ {"suggested_questions"}) |-> ss[k]]

DeleteKeys(ss) ==
  [k \in DOMAIN ss \ ResetKeys |-> ss[k]]

\* pd.read_csv on the uploader's file
read_csv(file) ==
  file[1]

\* The uploader hands the script a file object, and read_csv leaves its
\* position at the end.  A run the browser starts gets a new object, so the
\* read succeeds.  Whether the run st.rerun() starts gets a new object (the
\* read succeeds) or the one already read (read_csv raises EmptyDataError)
\* is left to the Streamlit runtime: either can happen.
ReadOutcomes(file, isRerun) ==
  IF file # <<>> /\ isRerun THEN BOOLEAN ELSE {TRUE}

suggestion_key ==
  <<"suggestion_0", "suggestion_1", "suggestion_2", "suggestion_3">>

\* A run of main() in progress or ended: the session store, how far the run
\* is ("running", or how it ended: "completed", "rerun" after st.rerun(),
\* "exception", "returned"), the widgets rendered so far, whether the reset
\* loop ran and the keys it deleted, and the number of calls of analyze and
\* of create_plan.
Ctx(ss, outcome, widgets, reset, deleted, analyzed) ==
  [ss |-> ss, outcome |-> outcome, shown |-> widgets, reset |-> reset,
   deleted |-> deleted, analyzed |-> analyzed, planned |-> 0]

\* a guard that lets every run recompute the metrics
needs_analysis_always(ss) ==
  TRUE

\* the guards of the lazily filled caches (lines 174, 188, 207)
needs_analysis(ss) ==
  ~Has(ss, "analysis")

needs_plan(ss) ==
  ~Has(ss, "plan")

needs_advisor(ss) ==
  ~Has(ss, "advisor")

\* a start button that jumps past the analysis stage
on_start_skip(ss) ==
  Set(ss, "step", 2)

\* the bodies of the three stage buttons (lines 170, 184, 203)
on_start(ss) ==
  Set(ss, "step", 1)

on_send_to_planner(ss) ==
  Set(ss, "step", 2)

on_activate_advisor(ss) ==
  Set(ss, "step", 3)

\* lines 145-147 and 150-152: a frame is stored and the pipeline's keys go
Loaded(ss, data, widgets) ==
  Ctx(DeleteKeys(Set(ss, "financial_data", data)), "running", widgets,
      TRUE, DOMAIN ss \cap ResetKeys, 0)

\* The sidebar, lines 139-152.  opt and file are the widget values of this
\* run, inp the key of the widget that fired ("none" if none did), readOk
\* whether read_csv succeeds, sample what load_sample_data returns.
Sidebar(ss, opt, file, inp, readOk, sample) ==
  IF opt = "Upload CSV"
  THEN IF file # <<>>
       THEN IF readOk
            THEN Loaded(ss, read_csv(file), {"uploader"})
            ELSE Ctx(ss, "exception", {"uploader"}, FALSE, {}, 0)
       ELSE Ctx(ss, "running", {"uploader"}, FALSE, {}, 0)
  ELSE IF inp = "load"
       THEN Loaded(ss, sample, {"load"})
       ELSE Ctx(ss, "running", {"load"}, FALSE, {}, 0)

\* a column check that lets every frame through
missing_columns_unchecked(data) ==
  FALSE

\* line 157
missing_columns(data) ==
  ~(RequiredColumns \subseteq data.columns)

\* lines 154-162 and 272-273: no data, missing columns, the first step
Gate(c) ==
  IF c.outcome # "running" THEN c
  ELSE IF ~Has(c.ss, "financial_data") THEN [c EXCEPT !.outcome = "completed"]
  ELSE IF missing_columns(c.ss.financial_data)
  THEN [c EXCEPT !.outcome = "returned"]
  ELSE IF Has(c.ss, "step") THEN c
  ELSE [c EXCEPT !.ss = Set(c.ss, "step", 0)]

\* lines 167-171
Idle(c, inp) ==
  IF c.outcome = "running" /\ c.ss.step = 0
  THEN IF inp = "start"
       THEN [c EXCEPT !.ss = on_start(c.ss), !.outcome = "rerun", !.shown = @ \cup {"start"}]
       ELSE [c EXCEPT !.shown = @ \cup {"start"}]
  ELSE c

\* lines 172-185
Analyzer(c, inp) ==
  IF c.outcome = "running" /\ c.ss.step >= 1
  THEN LET called == needs_analysis(c.ss)
           ss1 == IF called
                  THEN Set(Set(c.ss, "financial_data", to_datetime(c.ss.financial_data)),
                           "analysis", analyze(c.ss.financial_data))
                  ELSE c.ss
           c1 == [c EXCEPT !.ss = ss1, !.analyzed = IF called THEN 1 ELSE 0]
       IN  IF ss1.step # 1 THEN c1
           ELSE IF inp = "to_planner"
           THEN [c1 EXCEPT !.ss = on_send_to_planner(ss1), !.outcome = "rerun",
                           !.shown = @ \cup {"to_planner"}]
           ELSE [c1 EXCEPT !.shown = @ \cup {"to_planner"}]
  ELSE c

\* lines 186-204
Planner(c, inp) ==
  IF c.outcome = "running" /\ c.ss.step >= 2
  THEN IF needs_plan(c.ss) /\ create_plan_raises(c.ss.analysis)
       THEN [c EXCEPT !.outcome = "exception", !.planned = 1]
       ELSE LET called == needs_plan(c.ss)
                ss1 == IF called
                       THEN Set(c.ss, "plan", create_plan(c.ss.analysis))
                       ELSE c.ss
                c1 == [c EXCEPT !.ss = ss1, !.planned = IF called THEN 1 ELSE 0]
            IN  IF ss1.step # 2 THEN c1
                ELSE IF inp = "to_advisor"
                THEN [c1 EXCEPT !.ss = on_activate_advisor(ss1), !.outcome = "rerun",
                                !.shown = @ \cup {"to_advisor"}]
                ELSE [c1 EXCEPT !.shown = @ \cup {"to_advisor"}]
  ELSE c

\* lines 205-209
Advisor(c) ==
  IF c.outcome = "running" /\ c.ss.step >= 3 /\ needs_advisor(c.ss)
  THEN [c EXCEPT !.ss = Set(c.ss, "advisor",
                            FinancialAdvisorAgent(c.ss.analysis, c.ss.plan))]
  ELSE c

\* a test that never finds a question waiting
pending_question_never(h) ==
  FALSE

\* line 265: the last turn is a question not answered yet
pending_question(h) ==
  h # <<>> /\ h[Len(h)].role = "user"

\* lines 238-270: the chat, once the suggestions are in the session
Chat(c, inp, prompt) ==
  LET sq == c.ss.suggested_questions
      buttons == {suggestion_key[i] : i \in 1..Len(sq)}
      clicked == {i \in 1..Len(sq) : suggestion_key[i] = inp}
      h == c.ss.chat_history
  IN  IF sq # <<>> /\ clicked # {}
      THEN [c EXCEPT !.ss = Del(Set(c.ss, "chat_history",
                                    Append(h, [role |-> "user",
                                               content |-> sq[CHOOSE i \in clicked : TRUE]])),
                                "suggested_questions"),
                     !.outcome = "rerun",
                     !.shown = @ \cup buttons]
      ELSE IF inp = "chat_input"
      THEN [c EXCEPT !.ss = Set(Del(c.ss, "suggested_questions"), "chat_history",
                                Append(h, [role |-> "user", content |-> prompt])),
                     !.outcome = "rerun",
                     !.shown = @ \cup buttons \cup {"chat_input"}]
      ELSE IF pending_question(h)
      THEN [c EXCEPT !.ss = Set(c.ss, "chat_history",
                                Append(h, [role |-> "assistant",
                                           content |-> generate_advice(c.ss.advisor, h[Len(h)].content)])),
                     !.outcome = "completed",
                     !.shown = @ \cup buttons \cup {"chat_input"}]
      ELSE [c EXCEPT !.outcome = "completed",
                     !.shown = @ \cup buttons \cup {"chat_input"}]

\* lines 211-270: with step == 3 the report and the chat; the results the run
\* can end with (the suggested questions are a random sample)
Report(c, inp, prompt) ==
  IF c.outcome # "running" THEN {c}
  ELSE IF c.ss.step # 3 THEN {[c EXCEPT !.outcome = "completed"]}
  ELSE LET ss1 == Set(c.ss, "financial_data", to_datetime(c.ss.financial_data))
           ss2 == IF Has(ss1, "chat_history") THEN ss1 ELSE Set(ss1, "chat_history", <<>>)
           generated == IF Has(ss2, "suggested_questions")
                        THEN {ss2}
                        ELSE {Set(ss2, "suggested_questions", sq) :
                                 sq \in generate_suggested_questions(ss2.analysis)}
       IN  {Chat([c EXCEPT !.ss = ss3], inp, prompt) : ss3 \in generated}

\* One run of main(): prompt is the text typed into the chat input.
main(ss, opt, file, inp, prompt, readOk, sample) ==
  Report(Advisor(Planner(Analyzer(Idle(Gate(Sidebar(ss, opt, file, inp, readOk, sample)),
                                       inp), inp), inp)), inp, prompt)

\* ----------------------------------------------------------------- actions
Init ==
  /\ session_state = <<>>
  /\ data_option = "Use Sample Data"
  /\ uploaded_file = <<>>
  /\ shown = {"load"}
  /\ rerun_pending = FALSE
  /\ run = [trigger |-> "none", rerun |-> FALSE, outcome |-> "completed",
            reset |-> FALSE, deleted |-> {}]
  /\ analyze_calls = 0
  /\ create_plan_calls = 0

\* the script runs with the given widget values and leaves one of its results
Runs(opt, file, inp, prompt, samples, trigger, isRerun) ==
  \E readOk \in ReadOutcomes(file, isRerun), sample \in samples :
    \E r \in main(session_state, opt, file, inp, prompt, readOk, sample) :
      /\ session_state' = r.ss
      /\ data_option' = opt
      /\ uploaded_file' = file
      /\ shown' = r.shown
      /\ rerun_pending' = (r.outcome = "rerun")
      /\ run' = [trigger |-> trigger, rerun |-> isRerun, outcome |-> r.outcome,
                 reset |-> r.reset, deleted |-> r.deleted]
      /\ analyze_calls' = (IF r.reset THEN 0 ELSE analyze_calls) + r.analyzed
      /\ (IF r.reset THEN 0 ELSE create_plan_calls) + r.planned <= MaxPlanCalls
      /\ create_plan_calls' = (IF r.reset THEN 0 ELSE create_plan_calls) + r.planned

NoSample == {Frame(RequiredColumns, <<>>)}

ChatLen ==
  IF Has(session_state, "chat_history") THEN Len(session_state.chat_history) ELSE 0

\* the user picks the other radio option; an uploader that is not rendered, or
\* is rendered anew, holds no file
SelectDataSource ==
  /\ ~rerun_pending
  /\ \E opt \in DataOptions \ {data_option} :
       Runs(opt, <<>>, "none", <<>>, NoSample, "none", FALSE)

UploadFile ==
  /\ ~rerun_pending
  /\ "uploader" \in shown
  /\ \E contents \in CsvFiles :
       Runs(data_option, <<contents>>, "none", <<>>, NoSample, "upload", FALSE)

RemoveFile ==
  /\ ~rerun_pending
  /\ "uploader" \in shown
  /\ uploaded_file # <<>>
  /\ Runs(data_option, <<>>, "none", <<>>, NoSample, "none", FALSE)

LoadSampleData ==
  /\ ~rerun_pending
  /\ "load" \in shown
  /\ Runs(data_option, uploaded_file, "load", <<>>, load_sample_data, "load", FALSE)

StartAnalysis ==
  /\ ~rerun_pending
  /\ "start" \in shown
  /\ Runs(data_option, uploaded_file, "start", <<>>, NoSample, "start", FALSE)

SendToPlanner ==
  /\ ~rerun_pending
  /\ "to_planner" \in shown
  /\ Runs(data_option, uploaded_file, "to_planner", <<>>, NoSample, "to_planner", FALSE)

ActivateAdvisor ==
  /\ ~rerun_pending
  /\ "to_advisor" \in shown
  /\ Runs(data_option, uploaded_file, "to_advisor", <<>>, NoSample, "to_advisor", FALSE)

\* a suggested question is clicked; the history, with the answer, stays
\* within limit turns
ClickSuggestionUpTo(limit) ==
  /\ ~rerun_pending
  /\ ChatLen + 2 <= limit
  /\ \E i \in 1..Len(suggestion_key) :
       /\ suggestion_key[i] \in shown
       /\ Runs(data_option, uploaded_file, suggestion_key[i], <<>>, NoSample, "ask", FALSE)

ClickSuggestion ==
  ClickSuggestionUpTo(MaxChat)

\* a question is typed into the chat input
ChatInputUpTo(limit) ==
  /\ ~rerun_pending
  /\ ChatLen + 2 <= limit
  /\ "chat_input" \in shown
  /\ \E prompt \in Prompts :
       Runs(data_option, uploaded_file, "chat_input", prompt, NoSample, "ask", FALSE)

ChatInput ==
  ChatInputUpTo(MaxChat)

\* the page is rendered again with no widget changed
Rerender ==
  /\ ~rerun_pending
  /\ Runs(data_option, uploaded_file, "none", <<>>, NoSample, "none", FALSE)

\* the run that st.rerun() asked for
Rerun ==
  /\ rerun_pending
  /\ Runs(data_option, uploaded_file, "none", <<>>, NoSample, run.trigger, TRUE)

Next ==
  \/ SelectDataSource
  \/ UploadFile
  \/ RemoveFile
  \/ LoadSampleData
  \/ StartAnalysis
  \/ SendToPlanner
  \/ ActivateAdvisor
  \/ ClickSuggestion
  \/ ChatInput
  \/ Rerender
  \/ Rerun

Spec == Init /\ [][Next]_vars

\* ------------------------------------------------- a longer conversation
\* A session that stays with the sample data, the only data with which the
\* pipeline gets to the chat, and asks up to MaxLongChat \div 2 questions.
ClickSuggestionLong ==
  ClickSuggestionUpTo(MaxLongChat)

ChatInputLong ==
  ChatInputUpTo(MaxLongChat)

LongChatNext ==
  \/ LoadSampleData
  \/ StartAnalysis
  \/ SendToPlanner
  \/ ActivateAdvisor
  \/ ClickSuggestionLong
  \/ ChatInputLong
  \/ Rerender
  \/ Rerun

LongChatSpec == Init /\ [][LongChatNext]_vars

\* the stage of the pipeline: Idle is step 0, or no step key yet
Stage(ss) ==
  IF Has(ss, "step") THEN ss.step ELSE 0

Turns(ss) ==
  IF Has(ss, "chat_history") THEN ss.chat_history ELSE <<>>

\* ------------------------------------------------ the agents on their own
\* The agent classes and generate_suggested_questions are functions of their
\* arguments.  Here they are called one after the other, as main() calls
\* them, on every TransactionSet of up to MaxTx rows drawn from: a salary
\* row, a row with neither income nor spending, and spending rows of two
\* categories.  The session store holds the arguments and the results.
TxIncomes == {20}
TxSpendings == {3, 17, 19}

TxRows ==
  {[date |-> d, income |-> a, spending |-> 0, category |-> Salary] :
      d \in Dates, a \in TxIncomes}
  \cup {[date |-> d, income |-> 0, spending |-> 0, category |-> Food] : d \in Dates}
  \cup {[date |-> d, income |-> 0, spending |-> a, category |-> c] :
           d \in Dates, a \in TxSpendings, c \in Categories}

Transactions ==
  {Frame(RequiredColumns, rows) : rows \in SeqsUpTo(TxRows, MaxTx)}

AgentInit ==
  /\ session_state \in {[financial_data |-> data] : data \in Transactions}
  /\ data_option = "Use Sample Data"
  /\ uploaded_file = <<>>
  /\ shown = {}
  /\ rerun_pending = FALSE
  /\ run = [trigger |-> "none", rerun |-> FALSE, outcome |-> "completed",
            reset |-> FALSE, deleted |-> {}]
  /\ analyze_calls = 0
  /\ create_plan_calls = 0

\* analyzer.analyze(data), lines 176-177
call_analyze ==
  /\ needs_analysis(session_state)
  /\ session_state' =
       Set(Set(session_state, "financial_data", to_datetime(session_state.financial_data)),
           "analysis", analyze(session_state.financial_data))
  /\ analyze_calls' = analyze_calls + 1
  /\ run' = [run EXCEPT !.trigger = "start", !.outcome = "completed"]
  /\ UNCHANGED <<data_option, uploaded_file, shown, rerun_pending, create_plan_calls>>

\* FinancialPlannerAgent(analysis).create_plan(), lines 190-191
call_create_plan ==
  /\ Has(session_state, "analysis")
  /\ needs_plan(session_state)
  /\ create_plan_calls < MaxPlanCalls
  /\ create_plan_calls' = create_plan_calls + 1
  /\ IF create_plan_raises(session_state.analysis)
     THEN /\ run' = [run EXCEPT !.trigger = "to_planner", !.outcome = "exception"]
          /\ UNCHANGED session_state
     ELSE /\ run' = [run EXCEPT !.trigger = "to_planner", !.outcome = "completed"]
          /\ session_state' = Set(session_state, "plan", create_plan(session_state.analysis))
  /\ UNCHANGED <<data_option, uploaded_file, shown, rerun_pending, analyze_calls>>

\* FinancialAdvisorAgent(analysis, plan), line 208
call_FinancialAdvisorAgent ==
  /\ Has(session_state, "plan")
  /\ needs_advisor(session_state)
  /\ session_state' = Set(session_state, "advisor",
                          FinancialAdvisorAgent(session_state.analysis, session_state.plan))
  /\ run' = [run EXCEPT !.trigger = "to_advisor", !.outcome = "completed"]
  /\ UNCHANGED <<data_option, uploaded_file, shown, rerun_pending, analyze_calls,
                 create_plan_calls>>

\* advisor.generate_advice(user_question), line 268
call_generate_advice ==
  /\ Has(session_state, "advisor")
  /\ ChatLen + 2 <= MaxChat
  /\ \E query \in Prompts :
       session_state' =
         Set(session_state, "chat_history",
             Turns(session_state)
               \o <<[role |-> "user", content |-> query],
                    [role |-> "assistant",
                     content |-> generate_advice(session_state.advisor, query)]>>)
  /\ run' = [run EXCEPT !.trigger = "ask", !.outcome = "completed"]
  /\ UNCHANGED <<data_option, uploaded_file, shown, rerun_pending, analyze_calls,
                 create_plan_calls>>

\* generate_suggested_questions(analysis), line 246; it raises, as idxmax
\* does, when expense_by_category is empty
call_generate_suggested_questions ==
  /\ Has(session_state, "analysis")
  /\ ~Has(session_state, "suggested_questions")
  /\ ~idxmax_raises(session_state.analysis.expense_by_category)
  /\ \E sq \in generate_suggested_questions(session_state.analysis) :
       session_state' = Set(session_state, "suggested_questions", sq)
  /\ run' = [run EXCEPT !.outcome = "completed"]
  /\ UNCHANGED <<data_option, uploaded_file, shown, rerun_pending, analyze_calls,
                 create_plan_calls>>

AgentNext ==
  \/ call_analyze
  \/ call_create_plan
  \/ call_FinancialAdvisorAgent
  \/ call_generate_advice
  \/ call_generate_suggested_questions

AgentSpec == AgentInit /\ [][AgentNext]_vars

\* ------------------------------------------------------------- properties
IsPrefix(a, b) ==
  Len(a) <= Len(b) /\ SubSeq(b, 1, Len(a)) = a

Range(f) ==
  {f[i] : i \in DOMAIN f}

\* C1: when the cached metrics have an empty expense_by_category, the
\* advance from Analyzed fails and the state stays Analyzed: once the run has
\* ended the pipeline is never at step 2 without a cached plan.
C1_EmptyExpensesStayAnalyzed ==
  (/\ ~rerun_pending
   /\ Has(session_state, "analysis")
   /\ session_state.analysis.expense_by_category = <<>>)
  => (Stage(session_state) = 1 \/ (Stage(session_state) = 2 /\ Has(session_state, "plan")))

\* C2: a re-render in which the user loads no new TransactionSet leaves the
\* PipelineState unchanged, whatever the data source: a render of a settled
\* page changes nothing in the session, and the render st.rerun() asks for
\* keeps the stage, every cache already filled and the chat turns so far.
C2_RerenderKeepsState ==
  [][(/\ data_option' = data_option
      /\ uploaded_file' = uploaded_file)
     => /\ (~rerun_pending /\ run'.trigger = "none" /\ ~run'.rerun)
             => session_state' = session_state
        /\ rerun_pending
             => /\ Stage(session_state') = Stage(session_state)
                /\ \A k \in {"analysis", "plan", "advisor"} :
                     Has(session_state, k)
                       => Has(session_state', k) /\ session_state'[k] = session_state[k]
                /\ IsPrefix(Turns(session_state), Turns(session_state'))]_vars

\* C3: between two resets analyze is called at most once, and while the
\* metrics are cached a run that does not reset neither calls analyze nor
\* changes the cached metrics.
C3_AnalyzeAtMostOnce ==
  [][/\ analyze_calls' <= 1
     /\ (Has(session_state, "analysis") /\ ~run'.reset)
          => /\ Has(session_state', "analysis")
             /\ session_state'.analysis = session_state.analysis
             /\ analyze_calls' = analyze_calls]_vars

\* a re-render happened while the metrics were cached and computed once
C3_Witness ==
  /\ analyze_calls = 1
  /\ Has(session_state, "analysis")
  /\ run.trigger = "none"
  /\ ~run.rerun
  /\ ~run.reset

\* C4: a run that resets leaves no cached metrics, plan, advisor binding,
\* chat history or suggestions, and ends in Idle once it has settled; and
\* whatever is cached is computed from the current TransactionSet: the
\* metrics from the stored frame, the plan from those metrics, the advisor
\* bound to both, every answer given by that advisor.
C4_ResetDiscards ==
  /\ run.reset
       => /\ DOMAIN session_state \cap (ResetKeys \ {"step"}) = {}
          /\ ~rerun_pending => Stage(session_state) = 0
  /\ Has(session_state, "analysis")
       => session_state.analysis = analyze(session_state.financial_data)
  /\ Has(session_state, "plan")
       => /\ Has(session_state, "analysis")
          /\ session_state.plan = create_plan(session_state.analysis)
  /\ Has(session_state, "advisor")
       => /\ Has(session_state, "plan")
          /\ session_state.advisor =
               FinancialAdvisorAgent(analyze(session_state.financial_data),
                                     create_plan(analyze(session_state.financial_data)))
  /\ \A i \in 1..Len(Turns(session_state)) :
       Turns(session_state)[i].role = "assistant"
         => /\ i > 1
            /\ Has(session_state, "advisor")
            /\ Turns(session_state)[i].content =
                 generate_advice(
                   FinancialAdvisorAgent(analyze(session_state.financial_data),
                                         create_plan(analyze(session_state.financial_data))),
                   Turns(session_state)[i - 1].content)

\* a new TransactionSet was loaded over a pipeline that had got to the chat
C4_Witness ==
  /\ run.reset
  /\ run.trigger \in {"load", "upload"}
  /\ {"step", "analysis", "plan", "advisor", "chat_history"} \subseteq run.deleted
  /\ Has(session_state, "financial_data")

\* C5: the stage changes only by Idle->Analyzed in a run fired by the start
\* button, Analyzed->Planned and Planned->AdvisorReady in runs fired by their
\* advance buttons, or to Idle in a run that reset.
C5_StageTransitions ==
  [][Stage(session_state') # Stage(session_state)
       => \/ /\ Stage(session_state) = 0
             /\ Stage(session_state') = 1
             /\ run'.trigger = "start"
             /\ ~run'.rerun
          \/ /\ Stage(session_state) = 1
             /\ Stage(session_state') = 2
             /\ run'.trigger = "to_planner"
             /\ ~run'.rerun
          \/ /\ Stage(session_state) = 2
             /\ Stage(session_state') = 3
             /\ run'.trigger = "to_advisor"
             /\ ~run'.rerun
          \/ /\ Stage(session_state') = 0
             /\ run'.reset]_vars

\* the pipeline went through every stage and has answered in AdvisorReady
C5_Witness ==
  /\ Stage(session_state) = 3
  /\ Has(session_state, "advisor")
  /\ Len(Turns(session_state)) = 2
  /\ ~rerun_pending

\* the frame held is well formed and has a row with spending > 0
HasSpendingRow(ss) ==
  /\ Has(ss, "financial_data")
  /\ RequiredColumns \subseteq ss.financial_data.columns
  /\ \E i \in 1..Len(ss.financial_data.rows) : ss.financial_data.rows[i].spending > 0

\* C6: with a well-formed TransactionSet that has a spending row, loaded as
\* sample data or as an uploaded file, each trigger of the sequence start,
\* advance, advance takes the pipeline one stage on: once the runs the trigger
\* caused have ended, start has left it Analyzed with the metrics cached, the
\* first advance Planned with the plan cached, the second AdvisorReady with
\* the advisor bound to both.
C6_TriggersReachAdvisorReady ==
  (/\ ~rerun_pending
   /\ HasSpendingRow(session_state))
  => /\ run.trigger = "start"
          => Stage(session_state) = 1 /\ Has(session_state, "analysis")
     /\ run.trigger = "to_planner"
          => Stage(session_state) = 2 /\ Has(session_state, "plan")
     /\ run.trigger = "to_advisor"
          => /\ Stage(session_state) = 3
             /\ Has(session_state, "advisor")
             /\ session_state.advisor =
                  FinancialAdvisorAgent(session_state.analysis, session_state.plan)

\* C7: with total_income == 0 and a non-empty expense_by_category the plan
\* holds the rule-1 recommendation only: no warning, no "Reduce ..." goal.
C7_ZeroIncomeSkipsTopCategoryRule ==
  (/\ Has(session_state, "plan")
   /\ session_state.analysis.total_income = 0
   /\ session_state.analysis.expense_by_category # <<>>)
  => /\ Len(session_state.plan.recommendations) = 1
     /\ \A r \in Range(session_state.plan.recommendations) : r.type # "warning"
     /\ \A g \in Range(session_state.plan.goals) : g.fmt # "Reduce {} spending by 30%"

\* C8: a chat turn is appended only in AdvisorReady, before and after the
\* run, with metrics, plan and advisor cached and the advisor bound to those
\* metrics and that plan.
C8_ChatOnlyWhenAdvisorReady ==
  [][Len(Turns(session_state')) > Len(Turns(session_state))
       => /\ Stage(session_state) = 3
          /\ Stage(session_state') = 3
          /\ {"analysis", "plan", "advisor"} \subseteq DOMAIN session_state'
          /\ session_state'.advisor =
               FinancialAdvisorAgent(session_state'.analysis, session_state'.plan)]_vars

\* a query was answered
C8_Witness ==
  /\ Len(Turns(session_state)) = 2
  /\ Turns(session_state)[1].role = "user"
  /\ Turns(session_state)[2].role = "assistant"

\* word occurs in query, whatever the case of the query's letters
OccursIn(word, query) ==
  \E i \in 0..(Len(query) - Len(word)) :
    \A k \in 1..Len(word) : LowerChar(query[i + k]) = word[k]

\* C9: every answer in the history is the response of the first branch, in
\* the order summarize/health, savings/save, spending/expenses, fallback,
\* whose keyword occurs in the query before it, case ignored; "Summarize my
\* spending" gets the summarize response and "What is my savings rate?" the
\* savings response.
C9_AdviceRouting ==
  \A i \in 2..Len(Turns(session_state)) :
    Turns(session_state)[i].role = "assistant"
      => LET q == Turns(session_state)[i - 1].content
             r == Turns(session_state)[i].content
             b1 == OccursIn(kw_summarize, q) \/ OccursIn(kw_health, q)
             b2 == OccursIn(kw_savings, q) \/ OccursIn(kw_save, q)
             b3 == OccursIn(kw_spending, q) \/ OccursIn(kw_expenses, q)
         IN  /\ Turns(session_state)[i - 1].role = "user"
             /\ r.fmt \in {"summarize", "savings", "spending", "fallback"}
             /\ r.fmt = "summarize" <=> b1
             /\ r.fmt = "savings" <=> (~b1 /\ b2)
             /\ r.fmt = "spending" <=> (~b1 /\ ~b2 /\ b3)
             /\ r.fmt = "fallback" <=> (~b1 /\ ~b2 /\ ~b3)
             /\ q = P_both => r.fmt = "summarize"
             /\ q = P_rate => r.fmt = "savings"
             /\ q = P_upper => r.fmt = "spending"
             /\ q = Q_priority => r.fmt = "fallback"

\* the query with both "summarize" and "spending" was answered
C9_Witness ==
  /\ Len(Turns(session_state)) = 2
  /\ Turns(session_state)[1].content = P_both
  /\ Turns(session_state)[2].role = "assistant"

IncreaseSavingsGoal ==
  Text("Increase savings rate to 15% within 3 months", <<>>)

\* C10: a cached plan has at least one recommendation; the first is
\* 'critical' exactly when the cached savings_rate is below 10 and 'success'
\* otherwise, and the goal to raise the savings rate is among the goals
\* exactly when savings_rate is below 10.
C10_SavingsRateRule ==
  Has(session_state, "plan")
    => LET rate == session_state.analysis.savings_rate
           below == rate.num < 10 * rate.den
           recs == session_state.plan.recommendations
       IN  /\ session_state.analysis.expense_by_category # <<>>
           /\ rate.kind = "finite"
           /\ Len(recs) >= 1
           /\ recs[1].type = (IF below THEN "critical" ELSE "success")
           /\ (IncreaseSavingsGoal \in Range(session_state.plan.goals)) <=> below

\* a plan for an income that is not zero and a savings rate below 10
C10_Witness ==
  /\ Has(session_state, "plan")
  /\ session_state.analysis.total_income > 0
  /\ session_state.plan.recommendations[1].type = "critical"

\* the rows of the TransactionSet held
Rows(ss) ==
  ss.financial_data.rows

\* the spending of the rows of category c, added up row by row
CategorySpending(rows, c) ==
  SeqSum([i \in 1..Len(rows) |-> IF rows[i].category = c THEN rows[i].spending ELSE 0])

\* C11: the keys of expense_by_category are exactly the categories with a
\* row of spending > 0, no key twice; each key's value is the sum of that
\* category's spending; the values sum to total_expenses, the sum of the
\* spending of all rows; and net_savings is total_income - total_expenses.
C11_AnalyzeSums ==
  Has(session_state, "analysis")
    => LET rows == Rows(session_state)
           a == session_state.analysis
           e == a.expense_by_category
       IN  /\ {e[k].category : k \in 1..Len(e)}
                = {rows[i].category : i \in {j \in 1..Len(rows) : rows[j].spending > 0}}
           /\ \A k, l \in 1..Len(e) : e[k].category = e[l].category => k = l
           /\ \A k \in 1..Len(e) : e[k].spending = CategorySpending(rows, e[k].category)
           /\ SeqSum([k \in 1..Len(e) |-> e[k].spending]) = a.total_expenses
           /\ a.total_expenses = SeqSum([i \in 1..Len(rows) |-> rows[i].spending])
           /\ a.total_income = SeqSum([i \in 1..Len(rows) |-> rows[i].income])
           /\ a.net_savings = a.total_income - a.total_expenses

\* metrics of a set with two spending rows of one category and a row of a
\* category that has no spending
C11_Witness ==
  /\ Has(session_state, "analysis")
  /\ Len(Rows(session_state)) = 3
  /\ Len(session_state.analysis.expense_by_category) = 1
  /\ session_state.analysis.expense_by_category[1].category = Healthcare
  /\ session_state.analysis.expense_by_category[1].spending = 20
  /\ \E i \in 1..3 : Rows(session_state)[i].category = Food

\* C12: with total_income == 0 the savings_rate is 0; otherwise it is the
\* finite number net_savings / total_income * 100.
C12_SavingsRateZeroIncome ==
  Has(session_state, "analysis")
    => LET a == session_state.analysis
       IN  /\ a.savings_rate.kind = "finite"
           /\ a.savings_rate.den > 0
           /\ a.total_income = 0 => a.savings_rate.num = 0
           /\ a.total_income # 0
                => a.savings_rate.num * a.total_income
                     = 100 * a.net_savings * a.savings_rate.den

\* metrics of a set that has spending and no income
C12_Witness ==
  /\ Has(session_state, "analysis")
  /\ session_state.analysis.total_income = 0
  /\ session_state.analysis.total_expenses > 0
  /\ session_state.analysis.savings_rate = Finite(0, 1)

\* the widgets that take a stage trigger or a question
StageWidgets ==
  {"start", "to_planner", "to_advisor", "chat_input"}
    \cup {suggestion_key[i] : i \in 1..Len(suggestion_key)}

\* C13: while the TransactionSet held lacks a required column, every run
\* ends at the error report: no stage button and no chat widget is rendered,
\* analyze and create_plan are not called, and the session holds no step,
\* metrics, plan, advisor, chat history or suggestions.
C13_MissingColumnsStopPipeline ==
  (/\ Has(session_state, "financial_data")
   /\ RequiredColumns \ session_state.financial_data.columns # {})
  => /\ run.outcome = "returned"
     /\ ~rerun_pending
     /\ shown \cap StageWidgets = {}
     /\ analyze_calls = 0
     /\ create_plan_calls = 0
     /\ DOMAIN session_state \cap ResetKeys = {}

\* a file without the date column was uploaded over a pipeline that had
\* metrics and a plan
C13_Witness ==
  /\ Has(session_state, "financial_data")
  /\ "date" \notin session_state.financial_data.columns
  /\ run.trigger = "upload"
  /\ {"analysis", "plan"} \subseteq run.deleted

\* the first entry, in the order of the map, with the largest spending
TopEntry(e) ==
  CHOOSE t \in Range(e) :
    \E k \in 1..Len(e) :
      /\ e[k] = t
      /\ \A l \in 1..Len(e) : e[l].spending <= t.spending
      /\ \A l \in 1..(k - 1) : e[l].spending # t.spending

ReduceGoal(category) ==
  Text("Reduce {} spending by 30%", <<category>>)

\* C14: for metrics with total_income > 0 and a non-empty expense_by_category
\* the plan has, after the rule-1 recommendation, one 'warning' naming the
\* top-spending category, and ends its goals with "Reduce {category} spending
\* by 30%" after the rule-1 goal if there is one, exactly when 100 times that
\* category's spending is more than 15 times total_income; otherwise it has
\* the rule-1 recommendation and goal only.
C14_TopCategoryWarning ==
  (/\ Has(session_state, "plan")
   /\ session_state.analysis.total_income > 0
   /\ session_state.analysis.expense_by_category # <<>>)
  => LET a == session_state.analysis
         top == TopEntry(a.expense_by_category)
         over == 100 * top.spending > 15 * a.total_income
         recs == session_state.plan.recommendations
         goals == session_state.plan.goals
         rule1 == {i \in 1..Len(goals) : goals[i] = IncreaseSavingsGoal}
         warnings == {i \in 1..Len(recs) : recs[i].type = "warning"}
         reduce == {i \in 1..Len(goals) : goals[i].fmt = "Reduce {} spending by 30%"}
     IN  /\ recs[1].type \in {"critical", "success"}
         /\ rule1 \subseteq {1}
         /\ over => /\ Len(recs) = 2
                    /\ warnings = {2}
                    /\ recs[2].title = Text("High {} Spending", <<top.category>>)
                    /\ recs[2].message.args[1] = top.category
                    /\ Len(goals) = Cardinality(rule1) + 1
                    /\ goals[Len(goals)] = ReduceGoal(top.category)
         /\ ~over => /\ Len(recs) = 1
                     /\ warnings = {}
                     /\ reduce = {}
                     /\ Len(goals) = Cardinality(rule1)

\* a plan with the rule-1 goal and then the goal of the warning, the income
\* not zero
C14_Witness ==
  /\ Has(session_state, "plan")
  /\ session_state.analysis.total_income > 0
  /\ Len(session_state.plan.goals) = 2
  /\ session_state.plan.goals[1] = IncreaseSavingsGoal
  /\ session_state.plan.recommendations[2].type = "warning"

\* C15: between two resets create_plan is called at most once; the call is
\* made in the run that enters Planned, with the cached metrics, and leaves
\* the plan cached, so that once that run has ended Planned and AdvisorReady
\* have the plan and one call; later runs that do not reset neither call it
\* again nor change the cached plan.
C15_CreatePlanOnce ==
  [][/\ create_plan_calls' <= 1
     /\ (Stage(session_state') >= 2 /\ ~rerun_pending')
          => /\ create_plan_calls' = 1
             /\ Has(session_state', "plan")
             /\ session_state'.plan = create_plan(session_state'.analysis)
     /\ (Has(session_state, "plan") /\ ~run'.reset)
          => /\ Has(session_state', "plan")
             /\ session_state'.plan = session_state.plan
             /\ create_plan_calls' = create_plan_calls]_vars

\* user and assistant turns alternate from a user turn to an assistant turn,
\* each assistant turn being the advisor's answer to the turn before it
Alternates(h, advisor) ==
  /\ Len(h) % 2 = 0
  /\ \A i \in 1..Len(h) :
       IF i % 2 = 1
       THEN h[i].role = "user"
       ELSE /\ h[i].role = "assistant"
            /\ h[i].content = generate_advice(advisor, h[i - 1].content)

\* C16: a run that does not reset keeps the turns the history had and may
\* only append to them; and when a run has completed the history is empty or
\* alternates user, assistant, ..., ending with an assistant turn, every
\* assistant turn being generate_advice of the user turn just before it.
C16_ChatAlternates ==
  [][/\ ~run'.reset => IsPrefix(Turns(session_state), Turns(session_state'))
     /\ run'.reset => Turns(session_state') = <<>>
     /\ (run'.outcome = "completed" /\ Turns(session_state') # <<>>)
          => /\ Has(session_state', "advisor")
             /\ Alternates(Turns(session_state'), session_state'.advisor)]_vars

\* two questions were asked and answered, the second a different one
C16_Witness ==
  /\ run.outcome = "completed"
  /\ Len(Turns(session_state)) = 4
  /\ Turns(session_state)[4].role = "assistant"
  /\ Turns(session_state)[3].content # Turns(session_state)[1].content
  /\ Turns(session_state)[4].content # Turns(session_state)[2].content

\* C17: with a non-empty expense_by_category, the category in the title of
\* the plan's warning (the top-category rule's choice) and the category and
\* amount named by every answer of the advisor's spending branch belong to
\* the same entry: the one with the largest summed spending, the first such
\* entry in the order of the map when several tie.
C17_SameTopCategory ==
  (/\ Has(session_state, "analysis")
   /\ session_state.analysis.expense_by_category # <<>>)
  => LET top == TopEntry(session_state.analysis.expense_by_category)
     IN  /\ Has(session_state, "plan")
              => \A r \in Range(session_state.plan.recommendations) :
                   r.type = "warning" => r.title.args = <<top.category>>
         /\ \A t \in Range(Turns(session_state)) :
              (t.role = "assistant" /\ t.content.fmt = "spending")
                => t.content.args = <<top.category, Fmt(Finite(top.spending, 1), 1)>>

\* two categories tie for the maximum, the income is not zero, the plan warns
\* about one of them and the advisor has answered a spending question
C17_Witness ==
  /\ Has(session_state, "plan")
  /\ session_state.analysis.total_income > 0
  /\ Len(session_state.analysis.expense_by_category) = 2
  /\ session_state.analysis.expense_by_category[1].spending
       = session_state.analysis.expense_by_category[2].spending
  /\ \E r \in Range(session_state.plan.recommendations) : r.type = "warning"
  /\ \E t \in Range(Turns(session_state)) :
       t.role = "assistant" /\ t.content.fmt = "spending"

\* C18: a run in which analyze is called leaves the TransactionSet held in
\* the session as it was before the run: the same rows, and the same values
\* of every column, date included.
C18_AnalyzeLeavesDataUnchanged ==
  [][(/\ ~run'.reset
      /\ analyze_calls' = analyze_calls + 1)
     => /\ Has(session_state, "financial_data")
        /\ Has(session_state', "financial_data")
        /\ session_state'.financial_data = session_state.financial_data]_vars

\* C19: the suggested questions for metrics with a non-empty
\* expense_by_category are at most 4, no question twice; among them are
\* "Summarize my financial health.", "What is my top priority?" and "How can
\* I reduce my spending on {top category}?"; "Give me 3 ways to improve my
\* savings rate." is among them exactly when savings_rate < 15; and there is
\* no other question.
C19_SuggestedQuestions ==
  (/\ Has(session_state, "suggested_questions")
   /\ Has(session_state, "analysis")
   /\ session_state.analysis.expense_by_category # <<>>)
  => LET sq == session_state.suggested_questions
         a == session_state.analysis
         top == TopEntry(a.expense_by_category)
         reduce == Q_reduce_pre \o top.category \o <<"?">>
         low == /\ a.savings_rate.kind = "finite"
                /\ a.savings_rate.num < 15 * a.savings_rate.den
     IN  /\ Len(sq) <= 4
         /\ \A i, j \in 1..Len(sq) : sq[i] = sq[j] => i = j
         /\ {Q_health, Q_priority, reduce} \subseteq Range(sq)
         /\ Q_improve \in Range(sq) <=> low
         /\ Range(sq) \subseteq {Q_health, Q_priority, reduce, Q_improve}

\* four questions for metrics with an income and a savings rate below 15,
\* the savings question first
C19_Witness ==
  /\ Has(session_state, "suggested_questions")
  /\ session_state.analysis.total_income > 0
  /\ Len(session_state.suggested_questions) = 4
  /\ session_state.suggested_questions[1] = Q_improve

\* C20: when a run has completed, a cached plan comes with cached metrics
\* and a stage of Planned or AdvisorReady; a cached advisor comes with the
\* stage AdvisorReady and is bound to exactly the cached metrics and the
\* cached plan; and a chat turn or cached suggested questions come with a
\* cached advisor.
C20_CachesMatchStage ==
  (~rerun_pending /\ run.outcome = "completed")
  => /\ Has(session_state, "plan")
          => Has(session_state, "analysis") /\ Stage(session_state) >= 2
     /\ Has(session_state, "advisor")
          => /\ Stage(session_state) = 3
             /\ {"analysis", "plan"} \subseteq DOMAIN session_state
             /\ session_state.advisor.analysis = session_state.analysis
             /\ session_state.advisor.plan = session_state.plan
     /\ (Turns(session_state) # <<>> \/ Has(session_state, "suggested_questions"))
          => Has(session_state, "advisor")

\* a completed render in AdvisorReady with an answered question and new
\* suggestions
C20_Witness ==
  /\ ~rerun_pending
  /\ run.outcome = "completed"
  /\ Has(session_state, "advisor")
  /\ Has(session_state, "suggested_questions")
  /\ Len(Turns(session_state)) = 2

====
